---- MODULE Spec2Model ----
(***************************************************************************)
(* Model of mcp_obsidian.obsidian.Obsidian: the whitelist access policy,   *)
(* the error normalisation of _safe_call, the listing and search filters   *)
(* and the batch reader get_batch_file_contents.                           *)
(*                                                                         *)
(* A Python str is a sequence of one-character strings, so that strip,     *)
(* lower, split, startswith, concatenation and fnmatch are computed        *)
(* character by character as the library computes them.                    *)
(***************************************************************************)
EXTENDS Integers, Sequences, FiniteSets, TLC

VARIABLES
    ctor_args,          \* the arguments __init__ was called with
    protocol,           \* self.protocol
    whitelist,          \* self.whitelist
    whitelist_enabled,  \* self.whitelist_enabled
    pc,                 \* "idle" | "batch" (inside the for loop) | "done"
    call,               \* the method being executed and its argument
    events,             \* what the call did so far: access checks, sleeps, requests
    filepaths,          \* get_batch_file_contents: the argument
    i,                  \* get_batch_file_contents: loop index (0-based, as enumerate)
    result,             \* get_batch_file_contents: the list of blocks
    ret                 \* what the finished call returned or raised

vars == <<ctor_args, protocol, whitelist, whitelist_enabled, pc, call, events,
          filepaths, i, result, ret>>

\* ---------------------------------------------------------------- bounds
MaxBatch == 3       \* longest filepaths list given to get_batch_file_contents
MaxEntries == 2     \* longest listing / search result the server returns
MaxPatLen == 2      \* longest enumerated whitelist pattern
MaxPathLen == 3     \* longest enumerated path
MaxPatterns == 2    \* longest whitelist made of WhitelistPatterns

SeqsUpTo(S, n) == UNION {[1..k -> S] : k \in 0..n}

\* ------------------------------------------------------- str operations
\* str.startswith
StartsWith(s, prefix) ==
    Len(prefix) <= Len(s) /\ SubSeq(s, 1, Len(prefix)) = prefix

RECURSIVE LStrip(_, _)
LStrip(s, chars) ==
    IF s # <<>> /\ Head(s) \in chars THEN LStrip(Tail(s), chars) ELSE s

RECURSIVE RStrip(_, _)
RStrip(s, chars) ==
    IF s # <<>> /\ s[Len(s)] \in chars
    THEN RStrip(SubSeq(s, 1, Len(s) - 1), chars)
    ELSE s

\* str.strip(chars): every leading and every trailing character in chars
Strip(s, chars) == RStrip(LStrip(s, chars), chars)

\* a strip that removes at most one character at each end
StripOnce(s, chars) ==
    LET l == IF s # <<>> /\ Head(s) \in chars THEN Tail(s) ELSE s
    IN  IF l # <<>> /\ l[Len(l)] \in chars THEN SubSeq(l, 1, Len(l) - 1) ELSE l

Whitespace == {" ", "\t", "\n"}

UpperCase == <<"A","B","C","D","E","F","G","H","I","J","K","L","M","N","O","P","Q","R","S","T","U","V","W","X","Y","Z">>
LowerCase == <<"a","b","c","d","e","f","g","h","i","j","k","l","m","n","o","p","q","r","s","t","u","v","w","x","y","z">>

LowerChar(c) ==
    IF \E k \in 1..Len(UpperCase) : UpperCase[k] = c
    THEN LowerCase[CHOOSE k \in 1..Len(UpperCase) : UpperCase[k] = c]
    ELSE c

\* a lower() that was left out
LowerMissing(s) == s

\* str.lower
Lower(s) == [k \in 1..Len(s) |-> LowerChar(s[k])]

RECURSIVE SplitAcc(_, _, _)
SplitAcc(s, sep, cur) ==
    IF s = <<>> THEN <<cur>>
    ELSE IF Head(s) = sep THEN <<cur>> \o SplitAcc(Tail(s), sep, <<>>)
    ELSE SplitAcc(Tail(s), sep, Append(cur, Head(s)))

\* str.split(sep) for a one-character separator
Split(s, sep) == SplitAcc(s, sep, <<>>)

\* ---------------------------------------------------------------- fnmatch
\* the characters of the model in code-point order (for [a-z] ranges)
CharTable == <<" ","!","'","*",",","-",".","/","0","1","2","3","4","5","6","7","8","9",":","?","A","B","C","D","E","F","G","H","I","J","K","L","M","N","O","P","Q","R","S","T","U","V","W","X","Y","Z","[","]","_","a","b","c","d","e","f","g","h","i","j","k","l","m","n","o","p","q","r","s","t","u","v","w","x","y","z">>

Ord(c) == CHOOSE k \in 1..Len(CharTable) : CharTable[k] = c

RECURSIVE FindClose(_, _)
FindClose(p, j) ==
    IF j > Len(p) THEN 0
    ELSE IF p[j] = "]" THEN j
    ELSE FindClose(p, j + 1)

\* fnmatch.translate, for p[1] = "[": the index of the closing "]", 0 if none
\* (a "!" and then a "]" right after the "[" do not close the set)
BracketEnd(p) ==
    LET j1 == IF 2 <= Len(p) /\ p[2] = "!" THEN 3 ELSE 2
        j2 == IF j1 <= Len(p) /\ p[j1] = "]" THEN j1 + 1 ELSE j1
    IN  FindClose(p, j2)

RECURSIVE InSet(_, _)
InSet(c, stuff) ==
    IF stuff = <<>> THEN FALSE
    ELSE IF Len(stuff) >= 3 /\ stuff[2] = "-"
    THEN \/ Ord(stuff[1]) <= Ord(c) /\ Ord(c) <= Ord(stuff[3])
         \/ InSet(c, SubSeq(stuff, 4, Len(stuff)))
    ELSE c = Head(stuff) \/ InSet(c, Tail(stuff))

\* [seq] matches any character in seq, [!seq] any character not in seq
BracketMatches(c, stuff) ==
    IF Head(stuff) = "!" THEN ~InSet(c, Tail(stuff)) ELSE InSet(c, stuff)

RECURSIVE GlobMatch(_, _)
GlobMatch(name, pat) ==
    IF pat = <<>> THEN name = <<>>
    ELSE IF Head(pat) = "*"
    THEN GlobMatch(name, Tail(pat)) \/ (name # <<>> /\ GlobMatch(Tail(name), pat))
    ELSE IF Head(pat) = "?"
    THEN name # <<>> /\ GlobMatch(Tail(name), Tail(pat))
    ELSE IF Head(pat) = "["
    THEN LET j == BracketEnd(pat)
         IN  IF j = 0
             THEN name # <<>> /\ Head(name) = "[" /\ GlobMatch(Tail(name), Tail(pat))
             ELSE /\ name # <<>>
                  /\ BracketMatches(Head(name), SubSeq(pat, 2, j - 1))
                  /\ GlobMatch(Tail(name), SubSeq(pat, j + 1, Len(pat)))
    ELSE name # <<>> /\ Head(name) = Head(pat) /\ GlobMatch(Tail(name), Tail(pat))

\* fnmatch.fnmatch(name, pat) on a POSIX host (os.path.normcase is the identity):
\* the whole name must match, "*" matches any run of characters, "/" included
Fnmatch(name, pat) == GlobMatch(name, pat)

\* ---------------------------------------------------------- access policy
\* path.strip('/') with only one separator removed at each end
NormalizeShallow(path) == StripOnce(path, {"/"})

\* path.strip('/') and pattern.strip('/')
Normalize(path) == Strip(path, {"/"})

\* the directory test without the separator
PatternMatchesNoSeparator(normalized_path, pattern) ==
    LET normalized_pattern == Normalize(pattern)
    IN  \/ normalized_path = normalized_pattern
        \/ StartsWith(normalized_path, normalized_pattern)
        \/ Fnmatch(normalized_path, normalized_pattern)

\* the body of the loop over self.whitelist: the three tests, in order
PatternMatches(normalized_path, pattern) ==
    LET normalized_pattern == Normalize(pattern)
    IN  \/ normalized_path = normalized_pattern
        \/ StartsWith(normalized_path, normalized_pattern \o <<"/">>)
        \/ Fnmatch(normalized_path, normalized_pattern)

RECURSIVE ScanWhitelist(_, _)
\* for pattern in self.whitelist: ... return True; return False
ScanWhitelist(normalized_path, patterns) ==
    IF patterns = <<>> THEN FALSE
    ELSE IF PatternMatches(normalized_path, Head(patterns)) THEN TRUE
    ELSE ScanWhitelist(normalized_path, Tail(patterns))

is_path_allowed(path) ==
    IF ~whitelist_enabled THEN TRUE
    ELSE ScanWhitelist(Normalize(path), whitelist)

\* ------------------------------------------------------------- __init__
Host == <<"1","2","7",".","0",".","0",".","1">>
Port == <<"2","7","1","2","4">>

s_http == <<"h","t","t","p">>
s_https == <<"h","t","t","p","s">>

RECURSIVE StripAndDropEmpty(_)
\* [path.strip() for path in pieces if path.strip()]
StripAndDropEmpty(pieces) ==
    IF pieces = <<>> THEN <<>>
    ELSE LET p == Strip(Head(pieces), Whitespace)
         IN  (IF p # <<>> THEN <<p>> ELSE <<>>) \o StripAndDropEmpty(Tail(pieces))

\* the whitelist read from OBSIDIAN_WHITELIST
WhitelistFromEnv(whitelist_env) ==
    IF whitelist_env # <<>>
    THEN StripAndDropEmpty(Split(whitelist_env, ","))
    ELSE <<>>

InitProtocol(protocol_arg) ==
    IF Lower(protocol_arg) = s_http THEN s_http ELSE s_https

\* a whitelist argument: [given |-> FALSE, value |-> <<>>] is None
InitWhitelist(whitelist_arg, whitelist_env) ==
    IF ~whitelist_arg.given THEN WhitelistFromEnv(whitelist_env) ELSE whitelist_arg.value

NoArg == [given |-> FALSE, value |-> <<>>]
Arg(v) == [given |-> TRUE, value |-> v]

NoCall == [op |-> "none", arg |-> <<>>]
NoRet == [kind |-> "none", value |-> <<>>]

\* the state after Obsidian(api_key, protocol, whitelist=...) returned
Constructed(protocol_arg, whitelist_arg, whitelist_env) ==
    /\ ctor_args = [protocol |-> protocol_arg, whitelist |-> whitelist_arg,
                    whitelist_env |-> whitelist_env]
    /\ protocol = InitProtocol(protocol_arg)
    /\ whitelist = InitWhitelist(whitelist_arg, whitelist_env)
    /\ whitelist_enabled = (Len(InitWhitelist(whitelist_arg, whitelist_env)) > 0)
    /\ pc = "idle"
    /\ call = NoCall
    /\ events = <<>>
    /\ filepaths = <<>>
    /\ i = 0
    /\ result = <<>>
    /\ ret = NoRet

get_base_url == protocol \o <<":","/","/">> \o Host \o <<":">> \o Port


\* ------------------------------------------------------ values and server
\* a dict is its sequence of <<key, value>> pairs; dict.get(key, default)
RECURSIVE DictGet(_, _, _)
DictGet(pairs, key, default) ==
    IF pairs = <<>> THEN default
    ELSE IF Head(pairs)[1] = key THEN Head(pairs)[2]
    ELSE DictGet(Tail(pairs), key, default)

DictHas(pairs, key) == \E k \in 1..Len(pairs) : pairs[k][1] = key

\* the body of an error response: response.content and what response.json() makes of it
EmptyBody == [kind |-> "empty", pairs |-> <<>>]
ObjectBody(pairs) == [kind |-> "object", pairs |-> pairs]
ArrayBody == [kind |-> "array", pairs |-> <<>>]
TextBody == [kind |-> "text", pairs |-> <<>>]

\* what the server answers to one request
OkResponse(payload) == [status |-> "ok", payload |-> payload, content |-> EmptyBody]
HttpErrorResponse(body) == [status |-> "http_error", payload |-> <<>>, content |-> body]
TransportError == [status |-> "transport_error", payload |-> <<>>, content |-> EmptyBody]
NoResponse == [status |-> "none", payload |-> <<>>, content |-> EmptyBody]

Return(v) == [kind |-> "return", value |-> v]
Raise(type, msg) == [kind |-> "raise", value |-> [type |-> type, msg |-> msg]]

Ev(ev, idx, path, url, resp) ==
    [ev |-> ev, i |-> idx, path |-> path, url |-> url, resp |-> resp]

DefaultErrorCode == -1
DefaultErrorMessage == "<unknown>"

\* ------------------------------------------------------------ _safe_call
\* the except requests.HTTPError branch: e.response.json() if e.response.content else {}
HttpErrorOutcome(content) ==
    IF content.kind = "empty"
    THEN Raise("Exception", <<"Error ", DefaultErrorCode, ": ", DefaultErrorMessage>>)
    ELSE IF content.kind = "text"
    THEN Raise("JSONDecodeError", <<"Expecting value">>)
    ELSE IF content.kind = "array"
    THEN Raise("AttributeError", <<"'list' object has no attribute 'get'">>)
    ELSE Raise("Exception",
               <<"Error ", DictGet(content.pairs, "errorCode", DefaultErrorCode),
                 ": ", DictGet(content.pairs, "message", DefaultErrorMessage)>>)

\* _safe_call(f), where f sends one request, gets resp and returns value on success
safe_call(resp, value) ==
    IF resp.status = "ok" THEN Return(value)
    ELSE IF resp.status = "http_error" THEN HttpErrorOutcome(resp.content)
    ELSE Raise("Exception", <<"Request failed: ", "Connection refused">>)

\* ------------------------------------------------- _validate_path_access
AccessDeniedMessage(path) ==
    <<"Access denied: Path '", path, "' is not in the whitelist">>

\* a validation that lets every path through
validate_nothing(path) == Return(<<>>)

validate_path_access(path) ==
    IF ~is_path_allowed(path)
    THEN Raise("PermissionError", AccessDeniedMessage(path))
    ELSE Return(<<>>)

\* ------------------------------------------------------------- filtering
RECURSIVE FilterLoop(_, _, _)
\* for x in xs: if self._is_path_allowed(<path of x>): filtered.append(x)
\* (paths[k] is the path checked for xs[k])
FilterLoop(xs, paths, filtered) ==
    IF xs = <<>> THEN filtered
    ELSE FilterLoop(Tail(xs), Tail(paths),
                    IF is_path_allowed(Head(paths))
                    THEN Append(filtered, Head(xs))
                    ELSE filtered)

filter_files_by_whitelist(files) ==
    IF ~whitelist_enabled THEN files
    ELSE FilterLoop(files, files, <<>>)

\* the entry checked without its directory
DirFullPathBare(dirpath, file) == file

\* f"{dirpath}/{file}" if dirpath else file
DirFullPath(dirpath, file) ==
    IF dirpath # <<>> THEN dirpath \o <<"/">> \o file ELSE file

DirFilter(dirpath, files) ==
    FilterLoop(files, [k \in 1..Len(files) |-> DirFullPath(dirpath, files[k])], <<>>)

\* result.get('filename', '')
SearchKey(res) == DictGet(res, "filename", <<>>)

\* result.get('path', result.get('filename', ''))
SearchJsonKey(res) == DictGet(res, "path", DictGet(res, "filename", <<>>))

\* a search whose results are returned as the server sent them
SearchJsonUnfiltered(results) == results

SearchFilter(results) ==
    IF whitelist_enabled
    THEN FilterLoop(results, [k \in 1..Len(results) |-> SearchKey(results[k])], <<>>)
    ELSE results

SearchJsonFilter(results) ==
    IF whitelist_enabled
    THEN FilterLoop(results, [k \in 1..Len(results) |-> SearchJsonKey(results[k])], <<>>)
    ELSE results


\* ----------------------------------------------------------- input sets
\* ["projects/alpha", "daily/*.md"] and ["secret", "/"]
ExampleWhitelist == <<<<"p","r","o","j","e","c","t","s","/","a","l","p","h","a">>, <<"d","a","i","l","y","/","*",".","m","d">>>>
RootOnlyWhitelist == <<<<"s","e","c","r","e","t">>, <<"/">>>>

\* "http", "HTTP", "Http", "https", "ftp"
Protocols == {<<"h","t","t","p">>, <<"H","T","T","P">>, <<"H","t","t","p">>, <<"h","t","t","p","s">>, <<"f","t","p">>}

\* whitelists given: the example, ["*"], ["secret", "/"], ["da?ly", "*.txt"];
\* whitelists read from the environment: "" and " projects/alpha , ,daily/*.md"
\* <<whitelist argument, OBSIDIAN_WHITELIST>>
WhitelistConfigs ==
    { <<Arg(ExampleWhitelist), <<>>>>,
      <<Arg(<<<<"*">>>>), <<>>>>,
      <<Arg(RootOnlyWhitelist), <<>>>>,
      <<Arg(<<<<"d","a","?","l","y">>, <<"*",".","t","x","t">>>>), <<>>>>,
      <<NoArg, <<>>>>,
      <<NoArg, <<" ","p","r","o","j","e","c","t","s","/","a","l","p","h","a"," ",","," ",",","d","a","i","l","y","/","*",".","m","d">>>> }

\* <<protocol argument, whitelist argument, OBSIDIAN_WHITELIST>>
Configs ==
    {<<p, Arg(RootOnlyWhitelist), <<>>>> : p \in Protocols}
        \cup {<<s_https, w[1], w[2]>> : w \in WhitelistConfigs}

\* "projects/alpha/notes.md", "projects/alphabeta", "daily/sub/2024.md",
\* "//projects/alpha/", ""
FilePaths ==
    { <<"p","r","o","j","e","c","t","s","/","a","l","p","h","a","/","n","o","t","e","s",".","m","d">>, <<"p","r","o","j","e","c","t","s","/","a","l","p","h","a","b","e","t","a">>, <<"d","a","i","l","y","/","s","u","b","/","2","0","2","4",".","m","d">>,
      <<"/","/","p","r","o","j","e","c","t","s","/","a","l","p","h","a","/">>, <<>> }

\* "projects/alpha/ok.md", "denied.md", "daily/missing.md"
BatchPaths == { <<"p","r","o","j","e","c","t","s","/","a","l","p","h","a","/","o","k",".","m","d">>, <<"d","e","n","i","e","d",".","m","d">>, <<"d","a","i","l","y","/","m","i","s","s","i","n","g",".","m","d">> }

\* "projects/alpha", "projects", "daily", ""
DirPaths == { <<"p","r","o","j","e","c","t","s","/","a","l","p","h","a">>, <<"p","r","o","j","e","c","t","s">>, <<"d","a","i","l","y">>, <<>> }

\* "notes.md", "alpha", "sub/x.txt"
DirEntries == { <<"n","o","t","e","s",".","m","d">>, <<"a","l","p","h","a">>, <<"s","u","b","/","x",".","t","x","t">> }

\* "projects/alpha/notes.md", "daily/2024-01-01.md", "secret.md"
VaultEntries == { <<"p","r","o","j","e","c","t","s","/","a","l","p","h","a","/","n","o","t","e","s",".","m","d">>, <<"d","a","i","l","y","/","2","0","2","4","-","0","1","-","0","1",".","m","d">>, <<"s","e","c","r","e","t",".","m","d">> }

\* {filename: projects/alpha/notes.md}, {path: daily/2024-01-01.md, filename: secret.md},
\* {filename: secret.md}, {score: 1}
SearchResults ==
    { <<<<"filename", <<"p","r","o","j","e","c","t","s","/","a","l","p","h","a","/","n","o","t","e","s",".","m","d">>>>>>,
      <<<<"path", <<"d","a","i","l","y","/","2","0","2","4","-","0","1","-","0","1",".","m","d">>>>, <<"filename", <<"s","e","c","r","e","t",".","m","d">>>>>>,
      <<<<"filename", <<"s","e","c","r","e","t",".","m","d">>>>>>,
      <<<<"score", <<"1">>>>>> }

ErrorBodies ==
    { EmptyBody, TextBody, ArrayBody,
      ObjectBody(<<<<"errorCode", 40400>>, <<"message", "Not Found">>>>),
      ObjectBody(<<<<"message", "Not Found">>>>),
      ObjectBody(<<<<"detail", "x">>>>) }

ErrorResponses == {HttpErrorResponse(b) : b \in ErrorBodies} \cup {TransportError}

TextResponses == {OkResponse(<<"note text">>)} \cup ErrorResponses

BatchResponses ==
    { OkResponse(<<"note text">>),
      HttpErrorResponse(ObjectBody(<<<<"errorCode", 40400>>, <<"message", "Not Found">>>>)),
      HttpErrorResponse(TextBody),
      TransportError }

ListResponses(entries) ==
    {OkResponse(fs) : fs \in SeqsUpTo(entries, MaxEntries)} \cup ErrorResponses

DirResponses == ListResponses(DirEntries)
VaultResponses == ListResponses(VaultEntries)
SearchResponses == ListResponses(SearchResults)
BatchInputs == SeqsUpTo(BatchPaths, MaxBatch)

\* ------------------------------------------------------------- operations
VaultUrl(path) == get_base_url \o <<"/","v","a","u","l","t","/">> \o path

Finish(op, arg, evs, outcome) ==
    /\ pc' = "done"
    /\ call' = [op |-> op, arg |-> arg]
    /\ events' = evs
    /\ ret' = outcome
    /\ UNCHANGED <<ctor_args, protocol, whitelist, whitelist_enabled,
                   filepaths, i, result>>

CheckEv(idx, path) == Ev("check", idx, path, <<>>, NoResponse)
SleepEv(idx, path) == Ev("sleep", idx, path, <<>>, NoResponse)
RequestEv(idx, path, url, resp) == Ev("request", idx, path, url, resp)

get_file_contents(filepath, resp) ==
    /\ pc = "idle"
    /\ LET v == validate_path_access(filepath)
       IN  IF v.kind = "raise"
           THEN Finish("get_file_contents", filepath, <<CheckEv(0, filepath)>>, v)
           ELSE Finish("get_file_contents", filepath,
                       <<CheckEv(0, filepath),
                         RequestEv(0, filepath, VaultUrl(filepath), resp)>>,
                       safe_call(resp, resp.payload))

list_files_in_dir(dirpath, resp) ==
    /\ pc = "idle"
    /\ LET v == validate_path_access(dirpath)
       IN  IF v.kind = "raise"
           THEN Finish("list_files_in_dir", dirpath, <<CheckEv(0, dirpath)>>, v)
           ELSE Finish("list_files_in_dir", dirpath,
                       <<CheckEv(0, dirpath),
                         RequestEv(0, dirpath, VaultUrl(dirpath) \o <<"/">>, resp)>>,
                       safe_call(resp, DirFilter(dirpath, resp.payload)))

list_files_in_vault(resp) ==
    /\ pc = "idle"
    /\ Finish("list_files_in_vault", <<>>,
              <<RequestEv(0, <<>>, get_base_url \o <<"/","v","a","u","l","t","/">>, resp)>>,
              safe_call(resp, filter_files_by_whitelist(resp.payload)))

search(resp) ==
    /\ pc = "idle"
    /\ Finish("search", <<>>,
              <<RequestEv(0, <<>>, get_base_url \o <<"/","s","e","a","r","c","h","/","s","i","m","p","l","e","/">>, resp)>>,
              safe_call(resp, SearchFilter(resp.payload)))

search_json(resp) ==
    /\ pc = "idle"
    /\ Finish("search_json", <<>>,
              <<RequestEv(0, <<>>, get_base_url \o <<"/","s","e","a","r","c","h","/">>, resp)>>,
              safe_call(resp, SearchJsonFilter(resp.payload)))

\* ------------------------------------------------ get_batch_file_contents
\* f"# {filepath}\n\n{body}\n\n---\n\n"
Block(filepath, body) == [header |-> filepath, body |-> body]

\* the handlers in the other order: except Exception before except PermissionError
BlockForExceptionFirst(filepath, outcome) ==
    IF outcome.kind = "return" THEN Block(filepath, outcome.value)
    ELSE Block(filepath, <<"Error reading file: ">> \o outcome.value.msg)

\* the item's block: the content, or what the except clause that catches it writes
BlockFor(filepath, outcome) ==
    IF outcome.kind = "return" THEN Block(filepath, outcome.value)
    ELSE IF outcome.value.type = "PermissionError"
    THEN Block(filepath, outcome.value.msg)
    ELSE Block(filepath, <<"Error reading file: ">> \o outcome.value.msg)

\* a delay before every item, the first included
NeedsDelayAlways(idx) == idx >= 0

\* if i > 0: time.sleep(0.1)
NeedsDelay(idx) == idx > 0

\* an item that is skipped when it fails
AppendBlockUnlessFailed(blocks, filepath, outcome) ==
    IF outcome.kind = "return" THEN Append(blocks, BlockFor(filepath, outcome)) ELSE blocks

\* result.append(...), in the try body or in either except clause
AppendBlock(blocks, filepath, outcome) == Append(blocks, BlockFor(filepath, outcome))

BatchStart(paths) ==
    /\ pc = "idle"
    /\ pc' = "batch"
    /\ call' = [op |-> "get_batch_file_contents", arg |-> paths]
    /\ filepaths' = paths
    /\ i' = 0
    /\ result' = <<>>
    /\ events' = <<>>
    /\ UNCHANGED <<ctor_args, protocol, whitelist, whitelist_enabled, ret>>

\* one iteration of the for loop; the server's answer is drawn when a request is sent
BatchItem ==
    /\ pc = "batch"
    /\ i < Len(filepaths)
    /\ LET filepath == filepaths[i + 1]
           v == validate_path_access(filepath)
           delay == IF NeedsDelay(i) THEN <<SleepEv(i, filepath)>> ELSE <<>>
       IN  IF v.kind = "raise"
           THEN /\ events' = events \o <<CheckEv(i, filepath)>>
                /\ result' = AppendBlock(result, filepath, v)
           ELSE \E resp \in BatchResponses :
                /\ events' = events \o <<CheckEv(i, filepath)>> \o delay
                                   \o <<RequestEv(i, filepath, VaultUrl(filepath), resp)>>
                /\ result' = AppendBlock(result, filepath, safe_call(resp, resp.payload))
    /\ i' = i + 1
    /\ UNCHANGED <<ctor_args, protocol, whitelist, whitelist_enabled, pc, call,
                   filepaths, ret>>

\* return "".join(result): the string is kept as the sequence of its blocks
BatchReturn ==
    /\ pc = "batch"
    /\ i = Len(filepaths)
    /\ pc' = "done"
    /\ ret' = Return(result)
    /\ UNCHANGED <<ctor_args, protocol, whitelist, whitelist_enabled, call, events,
                   filepaths, i, result>>

\* the caller has the outcome; the client keeps nothing of the call
Returned ==
    /\ pc = "done"
    /\ pc' = "idle"
    /\ call' = NoCall
    /\ events' = <<>>
    /\ filepaths' = <<>>
    /\ i' = 0
    /\ result' = <<>>
    /\ ret' = NoRet
    /\ UNCHANGED <<ctor_args, protocol, whitelist, whitelist_enabled>>

\* ---------------------------------------------------------- specification
Init == \E c \in Configs : Constructed(c[1], c[2], c[3])

Next ==
    \/ \E p \in FilePaths, r \in TextResponses : get_file_contents(p, r)
    \/ \E d \in DirPaths, r \in DirResponses : list_files_in_dir(d, r)
    \/ \E r \in VaultResponses : list_files_in_vault(r)
    \/ \E r \in SearchResponses : search(r)
    \/ \E r \in SearchResponses : search_json(r)
    \/ \E ps \in BatchInputs : BatchStart(ps)
    \/ BatchItem
    \/ BatchReturn
    \/ Returned

Spec == Init /\ [][Next]_vars


\* ------------------------------------------- the policy taken on its own
PatternAlphabet == {"a", "/", "*", "?"}
PathAlphabet == {"a", "b", "/"}

\* "projects/alpha", "daily/*.md", "foo", "/a/", "[!a]*"
WhitelistPatterns == { <<"p","r","o","j","e","c","t","s","/","a","l","p","h","a">>, <<"d","a","i","l","y","/","*",".","m","d">>, <<"f","o","o">>, <<"/","a","/">>, <<"[","!","a","]","*">> }

\* "projects/alpha", "projects/alpha/notes.md", "projects/alphabeta",
\* "daily/2024-01-01.md", "daily/sub/2024.md", "//foo", "/foo//", "foo/bar"
ExamplePaths ==
    { <<"p","r","o","j","e","c","t","s","/","a","l","p","h","a">>, <<"p","r","o","j","e","c","t","s","/","a","l","p","h","a","/","n","o","t","e","s",".","m","d">>, <<"p","r","o","j","e","c","t","s","/","a","l","p","h","a","b","e","t","a">>,
      <<"d","a","i","l","y","/","2","0","2","4","-","0","1","-","0","1",".","m","d">>, <<"d","a","i","l","y","/","s","u","b","/","2","0","2","4",".","m","d">>, <<"/","/","f","o","o">>, <<"/","f","o","o","/","/">>, <<"f","o","o","/","b","a","r">> }

PolicyWhitelists ==
    {<<p>> : p \in SeqsUpTo(PatternAlphabet, MaxPatLen)}
        \cup SeqsUpTo(WhitelistPatterns, MaxPatterns)

PolicyPaths == SeqsUpTo(PathAlphabet, MaxPathLen) \cup ExamplePaths

\* a direct call of _is_path_allowed(path)
is_path_allowed_call(path) ==
    /\ pc = "idle"
    /\ Finish("_is_path_allowed", path, <<>>, Return(is_path_allowed(path)))

InitPolicy == \E w \in PolicyWhitelists : Constructed(s_https, Arg(w), <<>>)

NextPolicy ==
    \/ \E p \in PolicyPaths : is_path_allowed_call(p)
    \/ Returned

SpecPolicy == InitPolicy /\ [][NextPolicy]_vars


\* ================================================================ claims
BatchOp == "get_batch_file_contents"
PathOps == {"get_file_contents", "list_files_in_dir", BatchOp}
SingleOps == {"get_file_contents", "list_files_in_dir", "list_files_in_vault",
              "search", "search_json"}

EventsOf(kind, idx) ==
    {k \in 1..Len(events) : events[k].ev = kind /\ events[k].i = idx}

EventsOfKind(kind) == {k \in 1..Len(events) : events[k].ev = kind}

\* which of the three outcomes a block of the batch text shows
OutcomeKind(block) ==
    IF block.body[1] = "Access denied: Path '" THEN "Denied"
    ELSE IF block.body[1] = "Error reading file: " THEN "Failed"
    ELSE "Content"

IsRaise(type, msg) ==
    ret.kind = "raise" /\ ret.value.type = type /\ ret.value.msg = msg

\* C1: in get_file_contents, list_files_in_dir and every item of
\* get_batch_file_contents, a request is sent only for a path that passed the
\* access check, and after that check; a denied path gets no request and no
\* delay, and ends the call with PermissionError, or the batch item with the
\* access-denied block.
C1_NoRequestForDeniedPath ==
    call.op \in PathOps =>
        /\ \A k \in EventsOfKind("request") :
              /\ is_path_allowed(events[k].path)
              /\ \E j \in 1..(k - 1) : events[j] = CheckEv(events[k].i, events[k].path)
        /\ \A k \in EventsOfKind("check") :
              ~is_path_allowed(events[k].path) =>
                  /\ EventsOf("request", events[k].i) = {}
                  /\ EventsOf("sleep", events[k].i) = {}
                  /\ call.op # BatchOp =>
                        /\ pc = "done"
                        /\ IsRaise("PermissionError", AccessDeniedMessage(events[k].path))
                  /\ call.op = BatchOp =>
                        result[events[k].i + 1] =
                            Block(events[k].path, AccessDeniedMessage(events[k].path))

\* C1 witness: a finished batch in which one item was denied and a later item
\* was requested
C1_Witness ==
    /\ pc = "done"
    /\ call.op = BatchOp
    /\ \E k \in EventsOfKind("check"), j \in EventsOfKind("request") :
          ~is_path_allowed(events[k].path) /\ k < j

\* C2: the batch holds one block per processed path, in input order, headed by
\* that path; the returned text has as many blocks as there were inputs, the
\* k-th headed by the k-th input.
C2_OneBlockPerPathInOrder ==
    call.op = BatchOp =>
        /\ Len(result) = i
        /\ \A k \in 1..Len(result) : result[k].header = filepaths[k]
        /\ pc = "done" =>
              /\ ret.kind = "return"
              /\ Len(ret.value) = Len(call.arg)
              /\ \A k \in 1..Len(call.arg) : ret.value[k].header = call.arg[k]

\* C2 witness: a finished batch of three with the same path first and last, a
\* denied item and a failed item
C2_Witness ==
    /\ pc = "done"
    /\ call.op = BatchOp
    /\ Len(call.arg) = 3
    /\ call.arg[1] = call.arg[3]
    /\ OutcomeKind(ret.value[1]) = "Content"
    /\ OutcomeKind(ret.value[2]) = "Denied"
    /\ OutcomeKind(ret.value[3]) = "Failed"

\* C3: each batch item's outcome depends on that item alone: Denied when the
\* path is outside the whitelist (and nothing is requested), Content with the
\* response text when the read succeeds, Failed when the read fails in any way;
\* the finished call returns and has a block for every input.
C3_PerItemOutcome ==
    call.op = BatchOp =>
        /\ \A k \in 1..Len(result) :
              LET reqs == EventsOf("request", k - 1)
              IN  IF ~is_path_allowed(filepaths[k])
                  THEN OutcomeKind(result[k]) = "Denied" /\ reqs = {}
                  ELSE /\ Cardinality(reqs) = 1
                       /\ \A j \in reqs :
                             IF events[j].resp.status = "ok"
                             THEN /\ OutcomeKind(result[k]) = "Content"
                                  /\ result[k].body = events[j].resp.payload
                             ELSE OutcomeKind(result[k]) = "Failed"
        /\ pc = "done" => ret.kind = "return" /\ Len(ret.value) = Len(call.arg)

\* C3 witness: the batch [ok, denied, missing] with a 404 for the last one
C3_Witness ==
    /\ pc = "done"
    /\ call.op = BatchOp
    /\ call.arg = <<<<"p","r","o","j","e","c","t","s","/","a","l","p","h","a","/","o","k",".","m","d">>, <<"d","e","n","i","e","d",".","m","d">>, <<"d","a","i","l","y","/","m","i","s","s","i","n","g",".","m","d">>>>
    /\ <<OutcomeKind(ret.value[1]), OutcomeKind(ret.value[2]), OutcomeKind(ret.value[3])>>
           = <<"Content", "Denied", "Failed">>
    /\ \E j \in EventsOf("request", 2) :
          events[j].resp =
              HttpErrorResponse(ObjectBody(<<<<"errorCode", 40400>>,
                                             <<"message", "Not Found">>>>))

\* C4 (as claimed): one delay before every item at index > 0, whatever its
\* outcome, none before item 0, so n - 1 delays for n items.
C4_DelayBeforeEveryLaterItem ==
    call.op = BatchOp =>
        /\ \A idx \in 0..(i - 1) :
              Cardinality(EventsOf("sleep", idx)) = IF idx > 0 THEN 1 ELSE 0
        /\ (pc = "done" /\ Len(call.arg) > 0) =>
              Cardinality(EventsOfKind("sleep")) = Len(call.arg) - 1

\* C4 (amended): the delay comes after the access check: one delay, between
\* the check and the request, for every item at index > 0 that is allowed, and
\* none for item 0 nor for a denied item.
C4_DelayBeforeEveryLaterRequest ==
    call.op = BatchOp =>
        \A idx \in 0..(i - 1) :
            /\ Cardinality(EventsOf("sleep", idx)) =
                  IF idx > 0 /\ is_path_allowed(filepaths[idx + 1]) THEN 1 ELSE 0
            /\ \A k \in EventsOf("sleep", idx) :
                  /\ 1 < k /\ k < Len(events)
                  /\ events[k - 1].ev = "check" /\ events[k - 1].i = idx
                  /\ events[k + 1].ev = "request" /\ events[k + 1].i = idx

\* C4 witness: a finished batch of three whose middle item was denied: one
\* delay, before the last item
C4_Witness ==
    /\ pc = "done"
    /\ call.op = BatchOp
    /\ Len(call.arg) = 3
    /\ is_path_allowed(call.arg[1])
    /\ ~is_path_allowed(call.arg[2])
    /\ is_path_allowed(call.arg[3])
    /\ EventsOf("sleep", 1) = {}
    /\ Cardinality(EventsOf("sleep", 2)) = 1

\* s is t with a run of l leading and r trailing "/" around it
Around(s, t, l, r) ==
    /\ Len(s) = l + Len(t) + r
    /\ t = SubSeq(s, l + 1, l + Len(t))
    /\ \A k \in 1..l : s[k] = "/"
    /\ \A k \in (Len(s) - r + 1)..Len(s) : s[k] = "/"

NoOuterSeparator(t) == t = <<>> \/ (t[1] # "/" /\ t[Len(t)] # "/")

CheckedStrings == {call.arg} \cup {whitelist[k] : k \in 1..Len(whitelist)}

PolicyCallDone == pc = "done" /\ call.op = "_is_path_allowed"

\* C5 (as claimed): normalization removes exactly one leading and one trailing
\* "/", so "//foo" becomes "/foo" and pattern "foo" does not match it.
C5_StripsOneSeparator ==
    PolicyCallDone =>
        /\ \A s \in CheckedStrings : Normalize(s) = StripOnce(s, {"/"})
        /\ (call.arg = <<"/","/","f","o","o">> /\ whitelist = <<<<"f","o","o">>>>) => ret.value = FALSE

\* C5 (amended): normalization removes every leading and every trailing "/"
\* and nothing else: separators inside stay. "//foo" becomes "foo" and
\* pattern "foo" matches it.
C5_StripsAllOuterSeparators ==
    PolicyCallDone =>
        /\ \A s \in CheckedStrings :
              /\ NoOuterSeparator(Normalize(s))
              /\ \E l \in 0..Len(s), r \in 0..Len(s) : Around(s, Normalize(s), l, r)
        /\ (call.arg = <<"/","/","f","o","o">> /\ whitelist = <<<<"f","o","o">>>>) => ret.value = TRUE

\* C5 witness: "//foo" checked against the whitelist ["foo"] and allowed
C5_Witness ==
    /\ PolicyCallDone
    /\ call.arg = <<"/","/","f","o","o">>
    /\ whitelist = <<<<"f","o","o">>>>
    /\ ret.value = TRUE

\* np continues pt with a "/" (pt is a directory above np)
HasDirPrefix(np, pt) ==
    /\ Len(np) > Len(pt)
    /\ \A k \in 1..Len(pt) : np[k] = pt[k]
    /\ np[Len(pt) + 1] = "/"

Plain(s) == \A k \in 1..Len(s) : s[k] \notin {"*", "?", "["}

\* pt is pre * suf with pre and suf free of wildcards, and np starts with pre
\* and ends with suf, whatever lies between
StarSplits(np, pt) ==
    \E k \in 1..Len(pt) :
        LET pre == SubSeq(pt, 1, k - 1)
            suf == SubSeq(pt, k + 1, Len(pt))
        IN  /\ pt[k] = "*" /\ Plain(pre) /\ Plain(suf)
            /\ Len(np) >= Len(pre) + Len(suf)
            /\ SubSeq(np, 1, Len(pre)) = pre
            /\ SubSeq(np, Len(np) - Len(suf) + 1, Len(np)) = suf

OneStar(pt) ==
    \E k \in 1..Len(pt) :
        pt[k] = "*" /\ Plain(SubSeq(pt, 1, k - 1)) /\ Plain(SubSeq(pt, k + 1, Len(pt)))

AllowedByPattern(np, pt) ==
    np = pt \/ HasDirPrefix(np, pt) \/ Fnmatch(np, pt)

ExampleVerdicts ==
    { <<<<"p","r","o","j","e","c","t","s","/","a","l","p","h","a">>, TRUE>>, <<<<"p","r","o","j","e","c","t","s","/","a","l","p","h","a","/","n","o","t","e","s",".","m","d">>, TRUE>>,
      <<<<"p","r","o","j","e","c","t","s","/","a","l","p","h","a","b","e","t","a">>, FALSE>>, <<<<"d","a","i","l","y","/","2","0","2","4","-","0","1","-","0","1",".","m","d">>, TRUE>>,
      <<<<"d","a","i","l","y","/","s","u","b","/","2","0","2","4",".","m","d">>, TRUE>> }

\* C7: with an empty whitelist every path is allowed; otherwise a path is
\* allowed iff some normalized pattern equals the normalized path, or is a
\* directory above it, or glob-matches all of it, where a "*" also matches
\* "/"; the five verdicts for ["projects/alpha", "daily/*.md"] are as listed.
C7_AllowedIffSomePatternMatches ==
    /\ whitelist_enabled = (whitelist # <<>>)
    /\ PolicyCallDone =>
          LET np == Normalize(call.arg)
          IN  /\ ret.value =
                    (\/ whitelist = <<>>
                     \/ \E k \in 1..Len(whitelist) :
                           AllowedByPattern(np, Normalize(whitelist[k])))
              /\ \A k \in 1..Len(whitelist) :
                    LET pt == Normalize(whitelist[k])
                    IN  /\ Plain(pt) => (Fnmatch(np, pt) = (np = pt))
                        /\ OneStar(pt) => (Fnmatch(np, pt) = StarSplits(np, pt))
              /\ whitelist = ExampleWhitelist =>
                    \A v \in ExampleVerdicts : call.arg = v[1] => ret.value = v[2]

\* C7 witness: "daily/sub/2024.md" allowed by "daily/*.md" of the example whitelist
C7_Witness ==
    /\ PolicyCallDone
    /\ whitelist = ExampleWhitelist
    /\ call.arg = <<"d","a","i","l","y","/","s","u","b","/","2","0","2","4",".","m","d">>
    /\ ret.value = TRUE


\* the finished call sent one request and the server answered it with status
AnsweredWith(op, status) ==
    /\ pc = "done"
    /\ call.op = op
    /\ \E k \in EventsOfKind("request") : events[k].resp.status = status

TheResponse == events[CHOOSE k \in EventsOfKind("request") : TRUE].resp

FieldOr(content, key, default) ==
    IF content.kind = "object" /\ DictHas(content.pairs, key)
    THEN DictGet(content.pairs, key, default)
    ELSE default

\* C6: a wrapped request answered with a non-success status always ends in
\* Exception("Error {code}: {message}"), code and message taken from the JSON
\* body when it has them, and -1 and "<unknown>" when the body is empty or is
\* not JSON; no other exception leaves _safe_call.
C6_NonSuccessIsProtocolFailure ==
    \A op \in SingleOps :
        AnsweredWith(op, "http_error") =>
            IsRaise("Exception",
                    <<"Error ", FieldOr(TheResponse.content, "errorCode", -1),
                      ": ", FieldOr(TheResponse.content, "message", "<unknown>")>>)

OnlyStars(s) == \A k \in 1..Len(s) : s[k] = "*"

\* the empty path passes an enabled whitelist: some pattern is made of "/"
\* alone, or of "*" alone between "/"
EmptyPathAllowed == \E k \in 1..Len(whitelist) : OnlyStars(Normalize(whitelist[k]))

Keyless(res) == ~DictHas(res, "path") /\ ~DictHas(res, "filename")

Occurs(x, xs) == \E k \in 1..Len(xs) : xs[k] = x

\* C8 (as claimed): with an enabled whitelist a result that has neither
\* 'path' nor 'filename' is never returned by search_json.
C8_KeylessResultNeverReturned ==
    (AnsweredWith("search_json", "ok") /\ whitelist_enabled) =>
        \A k \in 1..Len(ret.value) : ~Keyless(ret.value[k])

\* C8 (amended): with an enabled whitelist search_json checks a result that
\* has neither key as the empty string; it is dropped unless the whitelist
\* allows the empty string, which it does exactly when some pattern consists
\* of "/" only or, once its outer "/" are stripped, of "*" only.
C8_KeylessResultCheckedAsEmptyPath ==
    (AnsweredWith("search_json", "ok") /\ whitelist_enabled) =>
        /\ is_path_allowed(<<>>) = EmptyPathAllowed
        /\ \A k \in 1..Len(TheResponse.payload) :
              Keyless(TheResponse.payload[k]) =>
                  (Occurs(TheResponse.payload[k], ret.value) = EmptyPathAllowed)

\* C8 witness: an enabled whitelist that does not allow the empty string, and
\* a result with neither key that was dropped
C8_Witness ==
    /\ AnsweredWith("search_json", "ok")
    /\ whitelist_enabled
    /\ ~EmptyPathAllowed
    /\ \E k \in 1..Len(TheResponse.payload) :
          /\ Keyless(TheResponse.payload[k])
          /\ ~Occurs(TheResponse.payload[k], ret.value)
    /\ ret.value # <<>>

\* C9: with an enabled whitelist a listing or a search returns the server's
\* entries that pass _is_path_allowed, in the server's order, and no others:
\* list_files_in_dir checks dir + "/" + entry (the bare entry for an empty
\* dir), list_files_in_vault the entry, search the result's filename.
C9_ReturnsExactlyTheAllowedEntries ==
    whitelist_enabled =>
        /\ AnsweredWith("list_files_in_dir", "ok") =>
              LET Keep(e) ==
                      is_path_allowed(IF call.arg = <<>> THEN e
                                      ELSE call.arg \o <<"/">> \o e)
              IN  ret = Return(SelectSeq(TheResponse.payload, Keep))
        /\ AnsweredWith("list_files_in_vault", "ok") =>
              ret = Return(SelectSeq(TheResponse.payload, is_path_allowed))
        /\ AnsweredWith("search", "ok") =>
              LET Keep(res) ==
                      is_path_allowed(IF DictHas(res, "filename")
                                      THEN DictGet(res, "filename", <<>>)
                                      ELSE <<>>)
              IN  ret = Return(SelectSeq(TheResponse.payload, Keep))

\* C9 witness: a listing of an allowed directory from which one entry was
\* kept and another dropped
C9_Witness ==
    /\ AnsweredWith("list_files_in_dir", "ok")
    /\ whitelist_enabled
    /\ is_path_allowed(call.arg)
    /\ Len(TheResponse.payload) = 2
    /\ Len(ret.value) = 1

IsHttpInAnyCase(s) ==
    /\ Len(s) = 4
    /\ s[1] \in {"h", "H"} /\ s[2] \in {"t", "T"}
    /\ s[3] \in {"t", "T"} /\ s[4] \in {"p", "P"}

SchemeOf(url) == SubSeq(url, 1, Len(protocol) + 3)

\* C10 (as claimed): the scheme is "http" only for the exact lowercase
\* argument "http"; "HTTP", "Http" and every other value give "https".
C10_HttpOnlyForExactLowercase ==
    protocol = IF ctor_args.protocol = s_http THEN s_http ELSE s_https

\* C10 (amended): the argument is lowercased first: the scheme is "http" when
\* the argument is "http" in any letter case ("HTTP" and "Http" included) and
\* "https" for every other value; requests go out under that scheme.
C10_HttpInAnyLetterCase ==
    /\ protocol = IF IsHttpInAnyCase(ctor_args.protocol) THEN s_http ELSE s_https
    /\ \A k \in EventsOfKind("request") : SchemeOf(events[k].url) = protocol \o <<":","/","/">>

\* C10 witness: a client built with "HTTP" that sent a request over http://
C10_Witness ==
    /\ ctor_args.protocol = <<"H","T","T","P">>
    /\ protocol = s_http
    /\ \E k \in EventsOfKind("request") : StartsWith(events[k].url, <<"h","t","t","p",":","/","/">>)

====
